---- MODULE Spec2Model ----
\* A model of rc_freq_scanner.py: the RCFrequencyScanner methods
\* (scan_frequency_range, capture_signal, analyze_modulation, close) and the
\* interactive loop of main() that drives them against one RTL-SDR front-end.
\*
\* Units. Frequencies are integers in kHz (26.995e6 Hz = 26995). Samples are
\* complex numbers with integer parts, <<re, im>>. The front-end's sample rate
\* is scaled from 2.4e6 to 24 samples per second, so that the window of one
\* scan dwell (duration 0.5 s) has 12 samples: 12 is the smallest length for
\* which the discrete Fourier transform is exact in integer arithmetic and a
\* detection (peak > 10 * mean) is possible at all. Floating point is
\* modelled by exact arithmetic. Timestamps and file names are left out.
EXTENDS Integers, Sequences, FiniteSets, TLC

\* ------------------------------------------------------------------------
\* Bounds of the model
\* ------------------------------------------------------------------------

\* How many menu commands one interactive session reads at most.
MaxCommands == 2

\* ------------------------------------------------------------------------
\* Program constants
\* ------------------------------------------------------------------------

\* __init__(center_freq=27.145e6, sample_rate=2.4e6): kHz, and samples/s / 1e5.
DefaultCenterFreq == 27145
SampleRate == 24

\* scan_frequency_range(step=100e3, duration=0.5): kHz, and the rational 1/2 s.
DefaultStep == 100
DefaultDuration == <<1, 2>>

\* "if max_power > avg_power * 10".
ThresholdMultiplier == 10

\* time.sleep(0.1) in the sweep and time.sleep(0.2) in the capture, in ms.
ScanSettleMs == 100
CaptureSettleMs == 200

\* "if am_variance > fm_variance * 2".
AmFmFactor == 2

\* RC_FREQUENCY_BANDS, in kHz (the 2.4 GHz band has no menu entry).
RC_FREQUENCY_BANDS ==
    [b \in {"27MHz", "40MHz", "49MHz"} |->
        CASE b = "27MHz" -> <<26995, 27255>>
          [] b = "40MHz" -> <<40660, 40700>>
          [] b = "49MHz" -> <<49820, 49900>>]

\* ------------------------------------------------------------------------
\* Exact arithmetic for np.fft.fft on windows whose length divides 12.
\* A spectrum bin is an element a0 + a1*z + a2*z^2 + a3*z^3 of Z[z], with
\* z = exp(2*pi*i/12), z^4 = z^2 - 1 and z^3 = i; it is kept as <<a0,a1,a2,a3>>.
\* ------------------------------------------------------------------------

ZZero == <<0, 0, 0, 0>>

ZAdd(a, b) == <<a[1] + b[1], a[2] + b[2], a[3] + b[3], a[4] + b[4]>>

\* a * z
ZMulZeta(a) == <<0 - a[4], a[1], a[2] + a[4], a[3]>>

RECURSIVE ZRot(_, _)
\* a * z^e
ZRot(a, e) == IF e = 0 THEN a ELSE ZRot(ZMulZeta(a), e - 1)

\* The complex sample re + im*i as an element of Z[z].
ZOfSample(s) == <<s[1], 0, 0, s[2]>>

\* The exponent e with exp(-2*pi*i*k*n/N) = z^e, for N dividing 12.
Twiddle(N, k, n) == (12 - (((12 \div N) * k * n) % 12)) % 12

RECURSIVE DFTSum(_, _, _)
\* sum over n < upto of x[n] * exp(-2*pi*i*k*n/N)   (x is 1-indexed here)
DFTSum(x, k, upto) ==
    IF upto = 0 THEN ZZero
    ELSE ZAdd(DFTSum(x, k, upto - 1),
              ZRot(ZOfSample(x[upto]), Twiddle(Len(x), k, upto - 1)))

RECURSIVE DFTBins(_, _)
\* The first upto bins of the transform of x.
DFTBins(x, upto) ==
    IF upto = 0 THEN <<>>
    ELSE Append(DFTBins(x, upto - 1), DFTSum(x, upto - 1, Len(x)))

\* np.fft.fft(samples); an empty window makes numpy raise ValueError, which
\* the callers model by FFTRaises.
fft(samples) == DFTBins(samples, Len(samples))

FFTRaises(samples) == Len(samples) = 0

\* A real number (p + q*sqrt(3)) / 4 is kept as <<p, q>>.
\* np.abs(X)**2 for a bin X: with 2*Re X = (2a0+a2) + a1*sqrt(3) and
\* 2*Im X = (a1+2a3) + a2*sqrt(3).
AbsSq(X) ==
    LET u == 2 * X[1] + X[3]
        v == X[2] + 2 * X[4]
    IN  <<u * u + 3 * X[2] * X[2] + v * v + 3 * X[3] * X[3],
          2 * u * X[2] + 2 * v * X[3]>>

\* p + q*sqrt(3) > 0
RPos(r) ==
    LET p == r[1]
        q == r[2]
    IN  \/ p > 0 /\ q >= 0
        \/ p >= 0 /\ q > 0
        \/ p > 0 /\ q < 0 /\ p * p > 3 * q * q
        \/ p < 0 /\ q > 0 /\ 3 * q * q > p * p

RSub(a, b) == <<a[1] - b[1], a[2] - b[2]>>

RScale(c, a) == <<c * a[1], c * a[2]>>

RLess(a, b) == RPos(RSub(b, a))

RECURSIVE AbsSqAll(_, _)
AbsSqAll(X, upto) ==
    IF upto = 0 THEN <<>> ELSE Append(AbsSqAll(X, upto - 1), AbsSq(X[upto]))

\* power = np.abs(np.fft.fft(samples))**2
PowerSpectrum(samples) == LET X == fft(samples) IN AbsSqAll(X, Len(X))

RECURSIVE RSum(_, _)
RSum(power, upto) ==
    IF upto = 0 THEN <<0, 0>>
    ELSE LET rest == RSum(power, upto - 1)
             bin == power[upto]
         IN  <<rest[1] + bin[1], rest[2] + bin[2]>>

\* np.mean(power), kept as the sum and the number of bins.
Mean(power) == [sum |-> RSum(power, Len(power)), n |-> Len(power)]

\* np.max(power)
Max(power) ==
    LET bins == {power[k] : k \in 1..Len(power)}
    IN  CHOOSE m \in bins : \A other \in bins : ~RLess(m, other)

\* A variant of the threshold test: ">=" instead of ">".
SignalPresentOrEqual(max_power, avg_power) ==
    LET d == RSub(RScale(avg_power.n, max_power),
                  RScale(ThresholdMultiplier, avg_power.sum))
    IN  RPos(d) \/ d = <<0, 0>>

\* "max_power > avg_power * 10", with avg_power = sum / n and n > 0.
SignalPresent(max_power, avg_power) ==
    RPos(RSub(RScale(avg_power.n, max_power),
              RScale(ThresholdMultiplier, avg_power.sum)))

\* 10 * np.log10(max_power): the logarithm is not computed; the value is
\* kept as a term that carries its argument.
PowerDb(max_power) == [log10_of |-> max_power]

\* A variant of signal_info: the frequency of the next step is recorded, as
\* if the record were built after "freq += step".
SignalInfoNextFreq(f, max_power) ==
    [frequency |-> f + DefaultStep, power_db |-> PowerDb(max_power)]

\* signal_info = {'frequency': freq, 'power_db': 10 * np.log10(max_power), ...}
SignalInfo(f, max_power) == [frequency |-> f, power_db |-> PowerDb(max_power)]

\* ------------------------------------------------------------------------
\* analyze_modulation. Samples of the scripted windows lie on the real or the
\* imaginary axis, so np.abs is an integer and np.angle a multiple of pi/2;
\* angles are counted in quarter turns (pi = 2).
\* ------------------------------------------------------------------------

IAbs(n) == IF n < 0 THEN 0 - n ELSE n

\* np.abs(sample)
Envelope(s) == IAbs(s[1]) + IAbs(s[2])

\* np.angle(sample), in quarter turns: a value in -1..2, and 0 for 0+0j.
Angle(s) ==
    CASE s[2] > 0 -> 1
      [] s[2] < 0 -> 0 - 1
      [] s[2] = 0 /\ s[1] < 0 -> 2
      [] OTHER -> 0

\* One phase correction of np.unwrap for the jump dd between neighbours:
\* ddmod = mod(dd + pi, 2*pi) - pi; ddmod = pi where ddmod == -pi and dd > 0;
\* the correction is ddmod - dd, and 0 where |dd| < pi.
PhCorrect(dd) ==
    LET m == ((dd + 2) % 4) - 2
        ddmod == IF m = 0 - 2 /\ dd > 0 THEN 2 ELSE m
    IN  IF IAbs(dd) < 2 THEN 0 ELSE ddmod - dd

RECURSIVE CumCorrect(_, _)
\* np.cumsum of the corrections up to element j (1-indexed); 0 for j = 1.
CumCorrect(p, j) ==
    IF j <= 1 THEN 0 ELSE CumCorrect(p, j - 1) + PhCorrect(p[j] - p[j - 1])

\* np.unwrap(np.angle(samples))
Unwrap(p) == [j \in 1..Len(p) |-> p[j] + CumCorrect(p, j)]

\* np.diff(x): one element fewer, and empty for an empty or one-element x.
Diff(x) ==
    IF Len(x) <= 1 THEN <<>> ELSE [j \in 1..(Len(x) - 1) |-> x[j + 1] - x[j]]

RECURSIVE ISum(_, _)
ISum(x, upto) == IF upto = 0 THEN 0 ELSE ISum(x, upto - 1) + x[upto]

\* np.var(x) as the fraction num / den; nan (with a warning, no error) for an
\* empty x.
Var(x) ==
    IF Len(x) = 0 THEN [nan |-> TRUE, num |-> 0, den |-> 1]
    ELSE [nan |-> FALSE,
          num |-> Len(x) * ISum([j \in 1..Len(x) |-> x[j] * x[j]], Len(x))
                  - ISum(x, Len(x)) * ISum(x, Len(x)),
          den |-> Len(x) * Len(x)]

\* a > c * b for two results of np.var; a comparison with nan is False.
VarGreater(a, c, b) ==
    /\ ~a.nan
    /\ ~b.nan
    /\ a.num * b.den > c * b.num * a.den

\* inst_freq = np.diff(phase) / (2*pi) * sample_rate, in units of 1/4 Hz.
InstFreq(samples, sample_rate) ==
    LET phase == Unwrap([j \in 1..Len(samples) |-> Angle(samples[j])])
        d == Diff(phase)
    IN  [j \in 1..Len(d) |-> d[j] * sample_rate]

\* analyze_modulation(samples): the variance of inst_freq is 1/16 of the
\* variance of its numerators.
analyze_modulation(samples, sample_rate) ==
    LET am_variance == Var([j \in 1..Len(samples) |-> Envelope(samples[j])])
        f == Var(InstFreq(samples, sample_rate))
        fm_variance == [nan |-> f.nan, num |-> f.num, den |-> 16 * f.den]
    IN  IF VarGreater(am_variance, AmFmFactor, fm_variance)
        THEN "Likely AM (Amplitude Modulation)"
        ELSE "Likely FM (Frequency Modulation)"

\* ------------------------------------------------------------------------
\* The environment: user input and the front-end's sample windows
\* ------------------------------------------------------------------------

\* A line of user input is <<"text", 0, 1>> (not a number) or <<"num", n, d>>
\* (a decimal that float() reads as n / d).
NotANumber == <<"text", 0, 1>>

\* float(input(...)): raises ValueError on text that is no number.
FloatRaises(text) == text[1] # "num"

FloatValue(text) == <<text[2], text[3]>>

\* float(...) * 1e6, as kHz: the inputs are MHz with at most 3 decimals.
MHzToFreq(r) == (r[1] * 1000) \div r[2]

\* int(self.sdr.sample_rate * duration): truncation toward zero (the
\* durations are not negative).
NumSamples(sample_rate, d) == (sample_rate * d[1]) \div d[2]

\* "abc", "26.995" and "27.195".
FrequencyInputs == {NotANumber, <<"num", 26995, 1000>>, <<"num", 27195, 1000>>}

\* "abc", "0.02", "0.07" and "0.5": at 24 samples per second 0.48, 1.68 and
\* 12 samples.
DurationInputs ==
    {NotANumber, <<"num", 1, 50>>, <<"num", 7, 100>>, <<"num", 1, 2>>}

WindowKinds == {"silence", "carrier", "impulse"}

\* Sample j (from 0) of a window the front-end delivers: no signal (every
\* sample zero), an unmodulated carrier a quarter of the sample rate above
\* the tuned frequency, or a single click.
ScriptedSample(kind, j) ==
    CASE kind = "silence" -> <<0, 0>>
      [] kind = "carrier" ->
            CASE j % 4 = 0 -> <<3, 0>>
              [] j % 4 = 1 -> <<0, 3>>
              [] j % 4 = 2 -> <<0 - 3, 0>>
              [] OTHER -> <<0, 0 - 3>>
      [] OTHER -> IF j = 0 THEN <<2, 0>> ELSE <<0, 0>>

ScriptedWindow(kind, n) == [j \in 1..n |-> ScriptedSample(kind, j - 1)]

\* The lengths of a short read of n samples.
ShortLengths(n) == {m \in {0, n \div 2} : m < n}

\* ------------------------------------------------------------------------
\* State
\* ------------------------------------------------------------------------

VARIABLES
    pc,           \* where main() is: a label of the code
    sdr,          \* the front-end: [state, center_freq, sample_rate]
    commands,     \* menu lines read so far
    error,        \* the exception caught by main's except clause, or "none"
    start_freq,   \* scan_frequency_range's arguments and locals
    end_freq,
    step,
    duration,     \* dwell or capture duration, a rational <<n, d>> of seconds
    freq,
    detected,
    frequency,    \* capture_signal's argument
    samples,      \* the window last read
    signals,      \* main's variable: [set, value]
    signal_data,  \* main's variable: [set, frequency, sample_rate, samples]
    modulation,   \* main's variable
    files,        \* the capture files written: metadata and payload length
    hw,           \* what the running command did to the front-end, in order
    typed         \* the lines the user typed for the running command

vars ==
    <<pc, sdr, commands, error, start_freq, end_freq, step, duration, freq,
      detected, frequency, samples, signals, signal_data, modulation, files, hw,
      typed>>

scanVars == <<start_freq, end_freq, step, freq, detected>>

mainVars == <<signals, signal_data, modulation, files>>

NoSignals == [set |-> FALSE, value |-> <<>>]

NoSignalData ==
    [set |-> FALSE, frequency |-> 0, sample_rate |-> 0, samples |-> <<>>]

Init ==
    /\ pc = "start"
    /\ sdr = [state |-> "unopened", center_freq |-> 0, sample_rate |-> 0]
    /\ commands = 0
    /\ error = "none"
    /\ start_freq = 0
    /\ end_freq = 0
    /\ step = 0
    /\ duration = <<0, 1>>
    /\ freq = 0
    /\ detected = <<>>
    /\ frequency = 0
    /\ samples = <<>>
    /\ signals = NoSignals
    /\ signal_data = NoSignalData
    /\ modulation = "none"
    /\ files = {}
    /\ hw = <<>>
    /\ typed = <<>>

\* An exception leaves the try block: main's "except Exception as e" prints
\* the message and main returns. Nothing else runs; the locals of the frame
\* that raised are left as they were.
Raise(e) ==
    /\ pc' = "done"
    /\ error' = e

\* ------------------------------------------------------------------------
\* main(): construction and the menu
\* ------------------------------------------------------------------------

\* scanner = RCFrequencyScanner(): RtlSdr() opens the device.
Open ==
    /\ pc = "start"
    /\ sdr' = [state |-> "open", center_freq |-> DefaultCenterFreq,
               sample_rate |-> SampleRate]
    /\ pc' = "menu"
    /\ UNCHANGED <<commands, error, scanVars, duration, frequency, samples,
                   mainVars, hw, typed>>

\* RtlSdr() raises: no device, no driver, no permission.
OpenFail ==
    /\ pc = "start"
    /\ Raise("HardwareUnavailable")
    /\ UNCHANGED <<sdr, commands, scanVars, duration, frequency, samples,
                   mainVars, hw, typed>>

\* The call scanner.scan_frequency_range(start, end): the defaults for step
\* and duration, "detected = []" and "freq = start_freq".
CallScan(s, e) ==
    /\ start_freq' = s
    /\ end_freq' = e
    /\ step' = DefaultStep
    /\ duration' = DefaultDuration
    /\ detected' = <<>>
    /\ freq' = s
    /\ pc' = "scan_while"

\* choice in '1', '2', '3': scan a preset band.
MenuBand ==
    /\ pc = "menu"
    /\ commands < MaxCommands
    /\ \E b \in DOMAIN RC_FREQUENCY_BANDS :
          CallScan(RC_FREQUENCY_BANDS[b][1], RC_FREQUENCY_BANDS[b][2])
    /\ commands' = commands + 1
    /\ UNCHANGED <<sdr, error, frequency, samples, mainVars, hw, typed>>

\* A variant of option 4: a start frequency that is no number is read as 0.
CustomParsedLenient(s, e) == ~FloatRaises(e)

\* Whether option 4 reaches the call: both float() conversions succeeded.
CustomParsed(s, e) == ~FloatRaises(s) /\ ~FloatRaises(e)

\* choice == '4': start and end are read and converted, then the scan runs.
MenuCustom ==
    /\ pc = "menu"
    /\ commands < MaxCommands
    /\ commands' = commands + 1
    /\ \E s \in FrequencyInputs, e \in FrequencyInputs :
          /\ typed' = IF FloatRaises(s) THEN <<s>> ELSE <<s, e>>
          /\ IF CustomParsed(s, e)
             THEN /\ CallScan(MHzToFreq(FloatValue(s)),
                              MHzToFreq(FloatValue(e)))
                  /\ UNCHANGED error
             ELSE /\ Raise("ValueError")
                  /\ UNCHANGED <<scanVars, duration>>
    /\ UNCHANGED <<sdr, frequency, samples, mainVars, hw>>

\* Whether option 5 reaches the call: both float() conversions succeeded.
CaptureParsed(f, d) == ~FloatRaises(f) /\ ~FloatRaises(d)

\* choice == '5': frequency and duration are read and converted, then
\* capture_signal runs.
MenuCapture ==
    /\ pc = "menu"
    /\ commands < MaxCommands
    /\ commands' = commands + 1
    /\ \E f \in FrequencyInputs, d \in DurationInputs :
          /\ typed' = IF FloatRaises(f) THEN <<f>> ELSE <<f, d>>
          /\ IF CaptureParsed(f, d)
             THEN /\ frequency' = MHzToFreq(FloatValue(f))
                  /\ duration' = FloatValue(d)
                  /\ pc' = "cap_tune"
                  /\ UNCHANGED error
             ELSE /\ Raise("ValueError")
                  /\ UNCHANGED <<frequency, duration>>
    /\ UNCHANGED <<sdr, scanVars, samples, mainVars, hw>>

\* Any other line: "Invalid option", and the menu again.
MenuInvalid ==
    /\ pc = "menu"
    /\ commands < MaxCommands
    /\ commands' = commands + 1
    /\ UNCHANGED <<pc, sdr, error, scanVars, duration, frequency, samples,
                   mainVars, hw, typed>>

\* choice == '6': break.
MenuExit ==
    /\ pc = "menu"
    /\ pc' = "close"
    /\ UNCHANGED <<sdr, commands, error, scanVars, duration, frequency,
                   samples, mainVars, hw, typed>>

\* scanner.close() after the loop, then main returns.
Close ==
    /\ pc = "close"
    /\ sdr' = [sdr EXCEPT !.state = "closed"]
    /\ hw' = Append(hw, <<"close", 0>>)
    /\ pc' = "done"
    /\ UNCHANGED <<commands, error, scanVars, duration, frequency, samples,
                   mainVars, typed>>

\* ------------------------------------------------------------------------
\* scan_frequency_range
\* ------------------------------------------------------------------------

\* A variant of the loop test: "<" instead of "<=".
LoopContinuesStrict(f, e) == f < e

\* "while freq <= end_freq"
LoopContinues(f, e) == f <= e

\* The loop test succeeds: the body is entered.
ScanEnterStep ==
    /\ pc = "scan_while"
    /\ LoopContinues(freq, end_freq)
    /\ pc' = "scan_tune"
    /\ UNCHANGED <<sdr, commands, error, scanVars, duration, frequency,
                   samples, mainVars, hw, typed>>

\* The loop test fails: "return detected" is reached.
ScanLeaveLoop ==
    /\ pc = "scan_while"
    /\ ~LoopContinues(freq, end_freq)
    /\ pc' = "scan_return"
    /\ UNCHANGED <<sdr, commands, error, scanVars, duration, frequency,
                   samples, mainVars, hw, typed>>

\* A variant of the tuning step: the samples are read right after tuning,
\* without the settle delay.
ScanTuneNoSettle ==
    /\ pc = "scan_tune"
    /\ sdr' = [sdr EXCEPT !.center_freq = freq]
    /\ hw' = Append(hw, <<"tune", freq>>)
    /\ pc' = "scan_read"
    /\ UNCHANGED <<commands, error, scanVars, duration, frequency, samples,
                   mainVars, typed>>

\* "self.sdr.center_freq = freq" succeeds.
ScanTune ==
    /\ pc = "scan_tune"
    /\ sdr' = [sdr EXCEPT !.center_freq = freq]
    /\ hw' = Append(hw, <<"tune", freq>>)
    /\ pc' = "scan_settle"
    /\ UNCHANGED <<commands, error, scanVars, duration, frequency, samples,
                   mainVars, typed>>

\* "self.sdr.center_freq = freq" raises: the front-end rejects the frequency.
ScanTuneFail ==
    /\ pc = "scan_tune"
    /\ hw' = Append(hw, <<"tune_failed", freq>>)
    /\ Raise("TuneFailure")
    /\ UNCHANGED <<sdr, commands, scanVars, duration, frequency, samples,
                   mainVars, typed>>

\* "time.sleep(0.1)"
ScanSettle ==
    /\ pc = "scan_settle"
    /\ hw' = Append(hw, <<"sleep", ScanSettleMs>>)
    /\ pc' = "scan_read"
    /\ UNCHANGED <<sdr, commands, error, scanVars, duration, frequency,
                   samples, mainVars, typed>>

\* "samples = self.sdr.read_samples(int(self.sdr.sample_rate * duration))":
\* the front-end delivers the requested number of samples.
ScanRead ==
    /\ pc = "scan_read"
    /\ LET n == NumSamples(sdr.sample_rate, duration)
       IN  /\ \E k \in WindowKinds : samples' = ScriptedWindow(k, n)
           /\ hw' = Append(hw, <<"read", n>>)
    /\ pc' = "scan_detect"
    /\ UNCHANGED <<sdr, commands, error, scanVars, duration, frequency,
                   mainVars, typed>>

\* The same read returns fewer samples than requested, without raising.
ScanReadShort ==
    /\ pc = "scan_read"
    /\ LET n == NumSamples(sdr.sample_rate, duration)
       IN  /\ \E k \in WindowKinds, m \in ShortLengths(n) :
                 samples' = ScriptedWindow(k, m)
           /\ hw' = Append(hw, <<"read", n>>)
    /\ pc' = "scan_detect"
    /\ UNCHANGED <<sdr, commands, error, scanVars, duration, frequency,
                   mainVars, typed>>

\* A variant of the failing read: the error is caught inside the scan, which
\* returns what it has found so far.
ScanReadFailSwallowed ==
    /\ pc = "scan_read"
    /\ hw' = Append(hw, <<"read_failed",
                          NumSamples(sdr.sample_rate, duration)>>)
    /\ pc' = "scan_return"
    /\ UNCHANGED <<sdr, commands, error, scanVars, duration, frequency,
                   samples, mainVars, typed>>

\* The same read raises.
ScanReadFail ==
    /\ pc = "scan_read"
    /\ hw' = Append(hw, <<"read_failed",
                          NumSamples(sdr.sample_rate, duration)>>)
    /\ Raise("ReadFailure")
    /\ UNCHANGED <<sdr, commands, scanVars, duration, frequency, samples,
                   mainVars, typed>>

\* Lines 45-56 on a non-empty window: the detections after this step.
DetectStep(det, f, window) ==
    LET power == PowerSpectrum(window)
        avg_power == Mean(power)
        max_power == Max(power)
    IN  IF SignalPresent(max_power, avg_power)
        THEN Append(det, SignalInfo(f, max_power))
        ELSE det

\* The power spectrum, the threshold test and "detected.append(signal_info)".
ScanDetect ==
    /\ pc = "scan_detect"
    /\ ~FFTRaises(samples)
    /\ detected' = DetectStep(detected, freq, samples)
    /\ pc' = "scan_advance"
    /\ UNCHANGED <<sdr, commands, error, start_freq, end_freq, step, freq,
                   duration, frequency, samples, mainVars, hw, typed>>

\* np.fft.fft raises ValueError on a window of no samples.
ScanDetectFail ==
    /\ pc = "scan_detect"
    /\ FFTRaises(samples)
    /\ Raise("ValueError")
    /\ UNCHANGED <<sdr, commands, scanVars, duration, frequency, samples,
                   mainVars, hw, typed>>

\* "freq += step"
ScanAdvance ==
    /\ pc = "scan_advance"
    /\ freq' = freq + step
    /\ pc' = "scan_while"
    /\ UNCHANGED <<sdr, commands, error, start_freq, end_freq, step, detected,
                   duration, frequency, samples, mainVars, hw, typed>>

\* "return detected", and main's "signals = ...": the frame is gone.
ScanReturn ==
    /\ pc = "scan_return"
    /\ signals' = [set |-> TRUE, value |-> detected]
    /\ start_freq' = 0
    /\ end_freq' = 0
    /\ step' = 0
    /\ freq' = 0
    /\ detected' = <<>>
    /\ duration' = <<0, 1>>
    /\ samples' = <<>>
    /\ pc' = "menu"
    /\ hw' = <<>>
    /\ typed' = <<>>
    /\ UNCHANGED <<sdr, commands, error, frequency, signal_data, modulation,
                   files>>

\* ------------------------------------------------------------------------
\* capture_signal, and the rest of menu option 5
\* ------------------------------------------------------------------------

\* "self.sdr.center_freq = frequency" succeeds.
CaptureTune ==
    /\ pc = "cap_tune"
    /\ sdr' = [sdr EXCEPT !.center_freq = frequency]
    /\ hw' = Append(hw, <<"tune", frequency>>)
    /\ pc' = "cap_settle"
    /\ UNCHANGED <<commands, error, scanVars, duration, frequency, samples,
                   mainVars, typed>>

\* "self.sdr.center_freq = frequency" raises.
CaptureTuneFail ==
    /\ pc = "cap_tune"
    /\ hw' = Append(hw, <<"tune_failed", frequency>>)
    /\ Raise("TuneFailure")
    /\ UNCHANGED <<sdr, commands, scanVars, duration, frequency, samples,
                   mainVars, typed>>

\* "time.sleep(0.2)"
CaptureSettle ==
    /\ pc = "cap_settle"
    /\ hw' = Append(hw, <<"sleep", CaptureSettleMs>>)
    /\ pc' = "cap_read"
    /\ UNCHANGED <<sdr, commands, error, scanVars, duration, frequency,
                   samples, mainVars, typed>>

\* "samples = self.sdr.read_samples(int(self.sdr.sample_rate * duration))"
CaptureRead ==
    /\ pc = "cap_read"
    /\ LET n == NumSamples(sdr.sample_rate, duration)
       IN  /\ \E k \in WindowKinds : samples' = ScriptedWindow(k, n)
           /\ hw' = Append(hw, <<"read", n>>)
    /\ pc' = "cap_save"
    /\ UNCHANGED <<sdr, commands, error, scanVars, duration, frequency,
                   mainVars, typed>>

\* The same read returns fewer samples than requested, without raising.
CaptureReadShort ==
    /\ pc = "cap_read"
    /\ LET n == NumSamples(sdr.sample_rate, duration)
       IN  /\ \E k \in WindowKinds, m \in ShortLengths(n) :
                 samples' = ScriptedWindow(k, m)
           /\ hw' = Append(hw, <<"read", n>>)
    /\ pc' = "cap_save"
    /\ UNCHANGED <<sdr, commands, error, scanVars, duration, frequency,
                   mainVars, typed>>

\* The same read raises.
CaptureReadFail ==
    /\ pc = "cap_read"
    /\ hw' = Append(hw, <<"read_failed",
                          NumSamples(sdr.sample_rate, duration)>>)
    /\ Raise("ReadFailure")
    /\ UNCHANGED <<sdr, commands, scanVars, duration, frequency, samples,
                   mainVars, typed>>

\* signal_data is built, the metadata goes to the .json file and the samples
\* to the .npy file, and signal_data is returned to main.
CaptureSave ==
    /\ pc = "cap_save"
    /\ signal_data' = [set |-> TRUE, frequency |-> frequency,
                       sample_rate |-> sdr.sample_rate, samples |-> samples]
    /\ files' = files \cup {[frequency |-> frequency,
                             sample_rate |-> sdr.sample_rate,
                             nsamples |-> Len(samples)]}
    /\ pc' = "analyze"
    /\ UNCHANGED <<sdr, commands, error, scanVars, duration, frequency,
                   samples, signals, modulation, hw, typed>>

\* "modulation = scanner.analyze_modulation(samples)" on the returned samples.
Analyze ==
    /\ pc = "analyze"
    /\ modulation' = analyze_modulation(signal_data.samples, sdr.sample_rate)
    /\ pc' = "ask_tx"
    /\ UNCHANGED <<sdr, commands, error, scanVars, duration, frequency,
                   samples, signals, signal_data, files, hw, typed>>

\* "Simulate transmission?" answered y: RCTransmitter.transmit_signal only
\* prints. Then the menu again.
TransmitSimulated ==
    /\ pc = "ask_tx"
    /\ frequency' = 0
    /\ duration' = <<0, 1>>
    /\ samples' = <<>>
    /\ pc' = "menu"
    /\ hw' = <<>>
    /\ typed' = <<>>
    /\ UNCHANGED <<sdr, commands, error, scanVars, mainVars>>

\* Answered anything else: the menu again.
TransmitDeclined ==
    /\ pc = "ask_tx"
    /\ frequency' = 0
    /\ duration' = <<0, 1>>
    /\ samples' = <<>>
    /\ pc' = "menu"
    /\ hw' = <<>>
    /\ typed' = <<>>
    /\ UNCHANGED <<sdr, commands, error, scanVars, mainVars>>

\* ------------------------------------------------------------------------
\* The specification
\* ------------------------------------------------------------------------

Next ==
    \/ Open
    \/ OpenFail
    \/ MenuBand
    \/ MenuCustom
    \/ MenuCapture
    \/ MenuInvalid
    \/ MenuExit
    \/ Close
    \/ ScanEnterStep
    \/ ScanLeaveLoop
    \/ ScanTune
    \/ ScanTuneFail
    \/ ScanSettle
    \/ ScanRead
    \/ ScanReadShort
    \/ ScanReadFail
    \/ ScanDetect
    \/ ScanDetectFail
    \/ ScanAdvance
    \/ ScanReturn
    \/ CaptureTune
    \/ CaptureTuneFail
    \/ CaptureSettle
    \/ CaptureRead
    \/ CaptureReadShort
    \/ CaptureReadFail
    \/ CaptureSave
    \/ Analyze
    \/ TransmitSimulated
    \/ TransmitDeclined

Spec == Init /\ [][Next]_vars

\* ------------------------------------------------------------------------
\* Properties
\* ------------------------------------------------------------------------

ScanLabels ==
    {"scan_while", "scan_tune", "scan_settle", "scan_read", "scan_detect",
     "scan_advance", "scan_return"}

CaptureLabels == {"cap_tune", "cap_settle", "cap_read", "cap_save"}

\* The frequencies of the successful tunes in a front-end log, in order.
TunedFreqs(h) ==
    LET t == SelectSeq(h, LAMBDA ev : ev[1] = "tune")
    IN  [i \in 1..Len(t) |-> t[i][2]]

\* The frequency the front-end was tuned to at each read of the log, in
\* order: the frequency of the latest tune before the read.
ReadFreqs(h) ==
    LET idx == {i \in 1..Len(h) : h[i][1] \in {"read", "read_failed"}}
        at(i) == Len(TunedFreqs(SubSeq(h, 1, i)))
        r == SelectSeq(h, LAMBDA ev : ev[1] \in {"read", "read_failed"})
        nth(n) == CHOOSE i \in idx : Cardinality({j \in idx : j <= i}) = n
    IN  [n \in 1..Len(r) |->
            IF at(nth(n)) = 0 THEN 0 - 1
            ELSE TunedFreqs(SubSeq(h, 1, nth(n)))[at(nth(n))]]

\* start, start + st, start + 2*st, ... up to and including e.
Sweep(start, e, st) ==
    IF start > e THEN <<>>
    ELSE [k \in 1..((e - start) \div st + 1) |-> start + (k - 1) * st]

IsPrefix(a, b) == Len(a) <= Len(b) /\ a = SubSeq(b, 1, Len(a))

\* C1: for start_freq <= end_freq and step > 0, a scan tunes and reads the
\* front-end exactly once at each start_freq + k*step <= end_freq, in
\* ascending order, and nowhere else: while the scan runs the frequencies
\* tuned and read so far are an initial part of that sweep, and when the scan
\* returns they are the whole sweep; one step when start_freq = end_freq, and
\* the steps 26995, 27095, 27195 kHz for the 27 MHz band.
C1_SweepVisitsEachStepOnce ==
    (pc \in ScanLabels /\ start_freq <= end_freq /\ step > 0) =>
        /\ IsPrefix(TunedFreqs(hw), Sweep(start_freq, end_freq, step))
        /\ IsPrefix(ReadFreqs(hw), TunedFreqs(hw))
        /\ pc = "scan_return" =>
              /\ TunedFreqs(hw) = Sweep(start_freq, end_freq, step)
              /\ ReadFreqs(hw) = TunedFreqs(hw)
              /\ start_freq = end_freq => TunedFreqs(hw) = <<start_freq>>
              /\ (start_freq = 26995 /\ end_freq = 27255 /\ step = 100) =>
                    TunedFreqs(hw) = <<26995, 27095, 27195>>

\* A scan of the 27 MHz band has returned after its three steps.
C1_Witness ==
    /\ pc = "scan_return"
    /\ start_freq = 26995
    /\ end_freq = 27255
    /\ Len(TunedFreqs(hw)) = 3
    /\ Len(ReadFreqs(hw)) = 3

\* The number of detections recorded at frequency f.
DetectionsAt(det, f) == Cardinality({i \in 1..Len(det) : det[i].frequency = f})

AllZero(window) == \A j \in 1..Len(window) : window[j] = <<0, 0>>

\* peak bin power > mean bin power * 10, for a non-empty window.
PeakExceedsMean(window) ==
    LET power == PowerSpectrum(window)
    IN  RLess(RScale(10, RSum(power, Len(power))),
              RScale(Len(power), Max(power)))

\* C2: at every sweep step a detection is recorded if and only if the
\* window's peak bin power is strictly greater than its mean bin power times
\* 10; a window whose peak power is <= 0 (every sample zero) gives no
\* detection and no error; and the logarithm for power_db is only taken of a
\* positive value.
C2_DetectionIffPeakExceedsMean ==
    /\ pc = "scan_advance" =>
          /\ DetectionsAt(detected, freq) =
                (IF PeakExceedsMean(samples) THEN 1 ELSE 0)
          /\ ~RPos(Max(PowerSpectrum(samples))) =>
                DetectionsAt(detected, freq) = 0
    /\ (pc = "done" /\ error = "ValueError" /\ hw # <<>>) => Len(samples) = 0
    /\ \A i \in 1..Len(detected) : RPos(detected[i].power_db.log10_of)
    /\ \A i \in 1..Len(signals.value) :
          RPos(signals.value[i].power_db.log10_of)

\* A step on a full window of zeros has recorded nothing, after an earlier
\* step of the same scan recorded a detection.
C2_Witness ==
    /\ pc = "scan_advance"
    /\ Len(samples) = NumSamples(SampleRate, DefaultDuration)
    /\ AllZero(samples)
    /\ Len(detected) = 1
    /\ detected[1].frequency < freq

HwFailed(h) ==
    \E i \in 1..Len(h) : h[i][1] \in {"tune_failed", "read_failed"}

\* C3: when the front-end fails to tune or to read during a scan, the scan
\* stops there: main's except clause gets the error, main's "signals" keeps
\* the value it had (the detections of the earlier steps are not handed
\* over), and no tune or read follows.
C3_ScanFailureIsFatal ==
    /\ [][(pc \in ScanLabels /\ HwFailed(hw'))
             => /\ pc' = "done"
                /\ error' \in {"TuneFailure", "ReadFailure"}
                /\ signals' = signals]_vars
    /\ [][HwFailed(hw) => hw' = hw]_vars

\* A read failed in a step of a scan that had already recorded a detection.
C3_Witness ==
    /\ pc = "done"
    /\ error = "ReadFailure"
    /\ start_freq < freq
    /\ Len(detected) > 0
    /\ ~signals.set

\* C4: during a forward sweep the detections accumulated so far are
\* non-decreasing in frequency, each at a frequency the front-end was tuned
\* to, and a detection is recorded at the frequency the front-end is tuned
\* to when it is recorded.
C4_DetectionsAscendAtTunedFreq ==
    /\ [](\A i, j \in 1..Len(detected) :
             i < j => detected[i].frequency <= detected[j].frequency)
    /\ []((pc \in ScanLabels /\ step > 0) =>
             \A i \in 1..Len(detected) :
                \E k \in 1..Len(TunedFreqs(hw)) :
                   detected[i].frequency = TunedFreqs(hw)[k])
    /\ [][(pc = "scan_detect" /\ Len(detected') > Len(detected))
             => /\ Len(detected') = Len(detected) + 1
                /\ SubSeq(detected', 1, Len(detected)) = detected
                /\ detected'[Len(detected')].frequency = sdr.center_freq]_vars

\* The third step of a scan has recorded a third detection.
C4_Witness ==
    /\ pc = "scan_advance"
    /\ Len(detected) = 3
    /\ detected[1].frequency < detected[2].frequency
    /\ detected[3].frequency = sdr.center_freq

\* The integer nearest to n / d (d > 0, n >= 0), a tie going to the even one,
\* as Python's round() does.
Round(n, d) ==
    LET q == n \div d
        r == n % d
    IN  CASE 2 * r < d -> q
          [] 2 * r > d -> q + 1
          [] OTHER -> IF q % 2 = 0 THEN q ELSE q + 1

\* C5: capture_signal requests round(sample_rate * duration) samples, and a
\* read that delivers in full returns a window of that many.
C5_CaptureWindowIsRounded ==
    pc = "cap_save" =>
        /\ hw[Len(hw)] =
              <<"read", Round(sdr.sample_rate * duration[1], duration[2])>>
        /\ Len(samples) = hw[Len(hw)][2] =>
              Len(samples) = Round(sdr.sample_rate * duration[1], duration[2])

Classifications ==
    {"Likely AM (Amplitude Modulation)", "Likely FM (Frequency Modulation)"}

\* C6: analyze_modulation on a window of fewer than 2 samples never returns a
\* classification.
C6_ShortWindowNotClassified ==
    ~(/\ pc = "ask_tx"
      /\ Len(signal_data.samples) < 2
      /\ modulation \in Classifications)

\* C7: a window shorter than requested is never run through the detection
\* of a scan step, and never returned or saved as a captured signal.
C7_ShortReadFailsTheStep ==
    LET requested == NumSamples(sdr.sample_rate, duration)
    IN  /\ pc = "scan_advance" => Len(samples) >= requested
        /\ pc = "analyze" =>
              /\ Len(signal_data.samples) >= requested
              /\ \A f \in files :
                    (f.frequency = frequency /\ f.nsamples < requested) =>
                        \E g \in files :
                            g.frequency = frequency /\ g.nsamples >= requested

Malformed(lines) == \E i \in 1..Len(lines) : FloatRaises(lines[i])

SettleMs ==
    CASE pc \in ScanLabels -> {ScanSettleMs}
      [] pc \in CaptureLabels \cup {"analyze", "ask_tx"} -> {CaptureSettleMs}
      [] OTHER -> {ScanSettleMs, CaptureSettleMs}

\* C9: on the front-end a scan step and a capture do tune, settle delay,
\* read, in this order: a read comes right after a settle delay that comes
\* right after a tune, every tune is followed by one read before the next
\* tune, and the window a step works on was read with the front-end tuned to
\* the frequency of that step.
C9_TuneSettleRead ==
    /\ \A i \in 1..Len(hw) :
          CASE hw[i][1] \in {"tune", "tune_failed"} -> i % 3 = 1
            [] hw[i][1] = "sleep" ->
                  /\ i % 3 = 2
                  /\ hw[i - 1][1] = "tune"
                  /\ hw[i][2] \in SettleMs
                  /\ hw[i][2] > 0
            [] hw[i][1] \in {"read", "read_failed"} ->
                  /\ i % 3 = 0
                  /\ hw[i - 1][1] = "sleep"
                  /\ hw[i - 2][1] = "tune"
            [] OTHER -> hw = <<<<"close", 0>>>>
    /\ pc \in {"scan_detect", "scan_advance"} =>
          /\ Len(hw) >= 3
          /\ hw[Len(hw)][1] = "read"
          /\ hw[Len(hw) - 2] = <<"tune", freq>>
          /\ sdr.center_freq = freq
    /\ pc = "cap_save" =>
          /\ Len(hw) = 3
          /\ hw[3][1] = "read"
          /\ hw[1] = <<"tune", frequency>>
          /\ sdr.center_freq = frequency

\* The second step of a scan has read its window.
C9_Witness ==
    /\ pc = "scan_detect"
    /\ Len(hw) = 6
    /\ hw[4] = <<"tune", start_freq + step>>
    /\ hw[5] = <<"sleep", ScanSettleMs>>

\* C10: whenever main has returned after the front-end was opened, the
\* front-end has been closed.
C10_ClosedWhenMainReturns ==
    (pc = "done" /\ sdr.state # "unopened") =>
        /\ sdr.state = "closed"
        /\ Len(SelectSeq(hw, LAMBDA ev : ev[1] = "close")) = 1
====
